---- MODULE Spec2Model ----
(***************************************************************************)
(* Model of application/openrouter_client.py: the line-oriented Markdown   *)
(* to HTML converter OpenRouterClient.simple_markdown_to_html and its      *)
(* caller OpenRouterClient.generate_completion.                            *)
(*                                                                         *)
(* A Python str is modelled as a sequence of one-character strings, so     *)
(* that startswith, slicing, strip, replace and re.sub are computed        *)
(* character by character as the interpreter computes them.  Python        *)
(* indices are 0-based: the cursor i keeps its Python value and lines[i]   *)
(* is At(lines, i).                                                        *)
(***************************************************************************)
EXTENDS Integers, Sequences, FiniteSets

VARIABLES
    text,           \* [invocation -> str]  the argument of the call
    lines,          \* [invocation -> list of str]  text.split('\n')
    i,              \* [invocation -> int]  the scan cursor
    in_code_block,  \* [invocation -> bool]  the fence flag
    result,         \* [invocation -> list]  the output accumulator
    reads,          \* [invocation -> set of int]  indices of lines read by the last step
    output,         \* [invocation -> str]  the returned string
    pc,             \* [invocation -> position of the call]
    request,        \* generate_completion: what the provider request does
    raw_output,     \* generate_completion: returned raw_output
    formatted_output \* generate_completion: returned formatted_output

vars == <<text, lines, i, in_code_block, result, reads, output, pc,
          request, raw_output, formatted_output>>

(***************************************************************************)
(* Bounds of the model.                                                    *)
(***************************************************************************)
NumCalls == 2       \* concurrent invocations of the converter
MaxLines == 4       \* lines of a document built from BaseLines
MaxBody == 2        \* characters after a line's marker, drawn from BodyChars
MaxLinks == 2

MaxDefault == 3       \* [text](url) patterns in one line

Calls == 1..NumCalls

(***************************************************************************)
(* Python str and list primitives.                                         *)
(***************************************************************************)
\* the backquote character, which a TLA+ string cannot hold
BQ == "backquote"

IsSpace(c) == c \in {" ", "\t", "\n", "\r", "\f"}

IsDigit(c) == c \in {"0", "1", "2", "3", "4", "5", "6", "7", "8", "9"}

\* s[n:]
Drop(s, n) == IF n >= Len(s) THEN <<>> ELSE SubSeq(s, n + 1, Len(s))

\* s[:n]
Take(s, n) == IF n <= 0 THEN <<>> ELSE IF n >= Len(s) THEN s ELSE SubSeq(s, 1, n)

\* s.startswith(pre)
StartsWith(s, pre) == Len(s) >= Len(pre) /\ Take(s, Len(pre)) = pre

RECURSIVE LStrip(_)
LStrip(s) == IF s # <<>> /\ IsSpace(Head(s)) THEN LStrip(Tail(s)) ELSE s

RECURSIVE RStrip(_)
RStrip(s) == IF s # <<>> /\ IsSpace(s[Len(s)]) THEN RStrip(Take(s, Len(s) - 1)) ELSE s

\* s.strip()
Strip(s) == RStrip(LStrip(s))

Least(S) == CHOOSE x \in S : \A y \in S : x <= y

\* s.find(sub): 0-based index of the first occurrence, -1 when there is none
Find(s, sub) ==
    LET At0 == {k \in 0..(Len(s) - Len(sub)) : SubSeq(s, k + 1, k + Len(sub)) = sub}
    IN  IF At0 = {} THEN -1 ELSE Least(At0)

\* sub in s
Contains(s, sub) == Find(s, sub) # -1

\* s.replace(old, new, 1)
ReplaceFirst(s, old, new) ==
    LET k == Find(s, old)
    IN  IF k = -1 THEN s ELSE Take(s, k) \o new \o Drop(s, k + Len(old))

\* s.replace(old, new), old non-empty
RECURSIVE ReplaceAll(_, _, _)
ReplaceAll(s, old, new) ==
    LET k == Find(s, old)
    IN  IF k = -1 THEN s
        ELSE Take(s, k) \o new \o ReplaceAll(Drop(s, k + Len(old)), old, new)

RECURSIVE Split(_)

\* a plausible slip: text.splitlines(), which has no line for an empty end
SplitLines(s) ==
    LET k == Find(s, <<"\n">>)
    IN  IF s = <<>> THEN <<>>
        ELSE IF k = -1 THEN <<s>>
        ELSE <<Take(s, k)>> \o Split(Drop(s, k + 1))

\* text.split('\n'): always at least one element
Split(s) ==
    LET k == Find(s, <<"\n">>)
    IN  IF k = -1 THEN <<s>> ELSE <<Take(s, k)>> \o Split(Drop(s, k + 1))

\* '\n'.join(l)
RECURSIVE Join(_)
Join(l) ==
    IF l = <<>> THEN <<>>
    ELSE IF Len(l) = 1 THEN l[1]
    ELSE l[1] \o <<"\n">> \o Join(Tail(l))

\* l[k] of a Python list: a negative k counts from the end; outside
\* -len..len-1 the read raises IndexError (Raises) and has no value
Raises(l, k) == k >= Len(l) \/ k < 0 - Len(l)

At(l, k) ==
    IF Raises(l, k) THEN <<>>
    ELSE IF k >= 0 THEN l[k + 1] ELSE l[Len(l) + k + 1]

(***************************************************************************)
(* re.sub of the link pattern \[([^\]]+)\]\(([^)]+)\) by an anchor          *)
(***************************************************************************)
\* length of the longest run of characters other than stop from 0-based k
RunNot(s, k, stop) ==
    LET Stops == {j \in k..(Len(s) - 1) : s[j + 1] = stop}
    IN  IF k >= Len(s) THEN 0
        ELSE IF Stops = {} THEN Len(s) - k
        ELSE Least(Stops) - k

CharIs(s, k, c) == k < Len(s) /\ s[k + 1] = c

\* the match of the pattern that starts at 0-based k, if any; both groups
\* are greedy runs that stop only at their closing character, so the
\* match at a position is unique
LinkMatch(s, k) ==
    LET t == RunNot(s, k + 1, "]")
        u == RunNot(s, k + 3 + t, ")")
    IN  [ok   |-> /\ CharIs(s, k, "[")
                  /\ t >= 1
                  /\ CharIs(s, k + 1 + t, "]")
                  /\ CharIs(s, k + 2 + t, "(")
                  /\ u >= 1
                  /\ CharIs(s, k + 3 + t + u, ")"),
         g1   |-> Take(Drop(s, k + 1), t),
         g2   |-> Take(Drop(s, k + 3 + t), u),
         next |-> k + 4 + t + u]

Anchor(url, txt) == <<"<", "a", " ", "h", "r", "e", "f", "=", "\"">> \o url \o <<"\"", ">">> \o txt \o <<"<", "/", "a", ">">>

\* leftmost non-overlapping matches, every one replaced: the scan copies
\* the text up to the next match, writes the anchor and goes on after it
RECURSIVE SubLinksFrom(_, _)
SubLinksFrom(s, k) ==
    LET Starts == {j \in k..(Len(s) - 1) : LinkMatch(s, j).ok}
    IN  IF Starts = {} THEN Drop(s, k)
        ELSE LET j == Least(Starts)
                 m == LinkMatch(s, j)
             IN  SubSeq(s, k + 1, j) \o Anchor(m.g2, m.g1) \o SubLinksFrom(s, m.next)

\* a plausible slip: re.sub with count=1
SubLinksOnce(s) ==
    LET Starts == {k \in 0..(Len(s) - 1) : LinkMatch(s, k).ok}
    IN  IF Starts = {} THEN s
        ELSE LET k == Least(Starts)
                 m == LinkMatch(s, k)
             IN  Take(s, k) \o Anchor(m.g2, m.g1) \o Drop(s, m.next)

SubLinks(s) == SubLinksFrom(s, 0)

(***************************************************************************)
(* simple_markdown_to_html: classification of a line and its fragments.    *)
(***************************************************************************)
\* line.startswith(fence marker): three backquotes
IsFence(line) == StartsWith(line, <<BQ, BQ, BQ>>)

\* the opening markup with language = line[3:].strip()
FenceOpen(line) == <<"<", "p", "r", "e", ">", "<", "c", "o", "d", "e", " ", "c", "l", "a", "s", "s", "=", "\"", "l", "a", "n", "g", "u", "a", "g", "e", "-">> \o Strip(Drop(line, 3)) \o <<"\"", ">">>

FenceClose == <<"<", "/", "c", "o", "d", "e", ">", "<", "/", "p", "r", "e", ">">>

\* a plausible slip: the ampersand escaped last
EscapeAmpLast(line) ==
    ReplaceAll(ReplaceAll(ReplaceAll(line, <<"<">>, <<"&", "l", "t", ";">>), <<">">>, <<"&", "g", "t", ";">>), <<"&">>, <<"&", "a", "m", "p", ";">>)

\* line.replace('&', '&amp;').replace('<', '&lt;').replace('>', '&gt;')
Escape(line) ==
    ReplaceAll(ReplaceAll(ReplaceAll(line, <<"&">>, <<"&", "a", "m", "p", ";">>), <<"<">>, <<"&", "l", "t", ";">>), <<">">>, <<"&", "g", "t", ";">>)

\* a plausible slip: the space after the marker not required
HeaderLevelNoSpace(line) ==
    IF StartsWith(line, <<"#", "#", "#", "#", "#">>) THEN 0
    ELSE IF StartsWith(line, <<"#", "#", "#", "#">>) THEN 4
    ELSE IF StartsWith(line, <<"#", "#", "#">>) THEN 3
    ELSE IF StartsWith(line, <<"#", "#">>) THEN 2
    ELSE IF StartsWith(line, <<"#">>) THEN 1
    ELSE 0

\* the branch of the if/elif chain of headers that takes the line, 0 for none
HeaderLevel(line) ==
    IF StartsWith(line, <<"#", " ">>) THEN 1
    ELSE IF StartsWith(line, <<"#", "#", " ">>) THEN 2
    ELSE IF StartsWith(line, <<"#", "#", "#", " ">>) THEN 3
    ELSE IF StartsWith(line, <<"#", "#", "#", "#", " ">>) THEN 4
    ELSE 0

HeaderFrag(line) ==
    IF StartsWith(line, <<"#", " ">>) THEN <<"<", "h", "1", ">">> \o Drop(line, 2) \o <<"<", "/", "h", "1", ">">>
    ELSE IF StartsWith(line, <<"#", "#", " ">>) THEN <<"<", "h", "2", ">">> \o Drop(line, 3) \o <<"<", "/", "h", "2", ">">>
    ELSE IF StartsWith(line, <<"#", "#", "#", " ">>) THEN <<"<", "h", "3", ">">> \o Drop(line, 4) \o <<"<", "/", "h", "3", ">">>
    ELSE <<"<", "h", "4", ">">> \o Drop(line, 5) \o <<"<", "/", "h", "4", ">">>

\* line.startswith('- ')
IsUnordered(line) == StartsWith(line, <<"-", " ">>)

\* line.strip() and line[0].isdigit() and line[1:].startswith('. ')
IsOrdered(line) ==
    /\ Strip(line) # <<>>
    /\ IsDigit(Head(line))
    /\ StartsWith(Drop(line, 1), <<".", " ">>)

ListItem(txt) == <<"<", "l", "i", ">">> \o txt \o <<"<", "/", "l", "i", ">">>

\* '<li>{0}</li>'.format(line[2:])
UnorderedFrag(line) == ListItem(Drop(line, 2))

\* '<li>{0}</li>'.format(line[line.find('.')+2:])
OrderedFrag(line) == ListItem(Drop(line, Find(line, <<".">>) + 2))

\* the boundary tests that guard the lookback and the lookahead
AtStart(k) == k = 0

\* a plausible slip: the last index taken to be len(lines)
AtEndOffByOne(l, k) == k = Len(l)

AtEnd(l, k) == k = Len(l) - 1

\* the indices of lines a list-item step reads: its own, lines[i-1] unless
\* i == 0, lines[i+1] unless i == len(lines) - 1 (or short-circuits)
ListReads(l, k) ==
    {k} \cup (IF AtStart(k) THEN {} ELSE {k - 1})
        \cup (IF AtEnd(l, k) THEN {} ELSE {k + 1})

\* a plausible slip: the lookback left out
UlOpensAlways(l, k) == TRUE

UlOpens(l, k) == AtStart(k) \/ ~IsUnordered(At(l, k - 1))

UlCloses(l, k) == AtEnd(l, k) \/ ~IsUnordered(At(l, k + 1))

OlOpens(l, k) == AtStart(k) \/ ~IsOrdered(At(l, k - 1))

OlCloses(l, k) == AtEnd(l, k) \/ ~IsOrdered(At(l, k + 1))

\* a plausible slip: the count argument left out of the first replace
BoldEvery(s) == ReplaceAll(ReplaceAll(s, <<"*", "*">>, <<"<", "s", "t", "r", "o", "n", "g", ">">>), <<"*", "*">>, <<"<", "/", "s", "t", "r", "o", "n", "g", ">">>)

\* replace('**', '<strong>', 1) then replace('**', '</strong>', 1)
Bold(s) == ReplaceFirst(ReplaceFirst(s, <<"*", "*">>, <<"<", "s", "t", "r", "o", "n", "g", ">">>), <<"*", "*">>, <<"<", "/", "s", "t", "r", "o", "n", "g", ">">>)

\* replace('*', '<em>', 1) then replace('*', '</em>', 1)
Italic(s) == ReplaceFirst(ReplaceFirst(s, <<"*">>, <<"<", "e", "m", ">">>), <<"*">>, <<"<", "/", "e", "m", ">">>)

\* formatted_line after bold, italic and links
InlineFormat(line) == SubLinks(Italic(Bold(line)))

BlockTags == {<<"<", "h", "1", ">">>, <<"<", "h", "2", ">">>, <<"<", "h", "3", ">">>, <<"<", "h", "4", ">">>, <<"<", "u", "l", ">">>, <<"<", "o", "l", ">">>, <<"<", "l", "i", ">">>}

HasBlockTag(s) == \E t \in BlockTags : Contains(s, t)

\* a plausible slip: only the empty line taken as blank, no strip
DefaultFragEmptyOnly(line) ==
    LET formatted_line == InlineFormat(line)
    IN  IF line = <<>> THEN <<"<", "b", "r", ">">>
        ELSE IF ~HasBlockTag(formatted_line) THEN <<"<", "p", ">">> \o formatted_line \o <<"<", "/", "p", ">">>
        ELSE formatted_line

\* the fragment the else branch appends
DefaultFrag(line) ==
    LET formatted_line == InlineFormat(line)
    IN  IF Strip(line) = <<>> THEN <<"<", "b", "r", ">">>
        ELSE IF ~HasBlockTag(formatted_line) THEN <<"<", "p", ">">> \o formatted_line \o <<"<", "/", "p", ">">>
        ELSE formatted_line

(***************************************************************************)
(* The accumulator holds one record per result.append: the string (frag)   *)
(* and, as history, the cursor at the append (line) and the statement      *)
(* that made it (rule).                                                    *)
(***************************************************************************)
Frag(rule, k, s) == [rule |-> rule, line |-> k, frag |-> s]

\* a plausible slip: one accumulator kept on the client, shared by the calls
AppendToShared(res, p, frs) == [q \in DOMAIN res |-> res[q] \o frs]

\* result.append on the accumulator of invocation p
AppendTo(res, p, frs) == [res EXCEPT ![p] = @ \o frs]

Strings(l) == [k \in 1..Len(l) |-> l[k].frag]

Loop(p) == pc[p] = "loop" /\ i[p] < Len(lines[p])

Line(p) == At(lines[p], i[p])

Outside(p) == Loop(p) /\ ~IsFence(Line(p)) /\ ~in_code_block[p]

\* the branch of the loop body the line takes, in the order of the if/elif chain
TakesFence(p) == Loop(p) /\ IsFence(Line(p))

TakesCode(p) == Loop(p) /\ ~IsFence(Line(p)) /\ in_code_block[p]

TakesHeader(p) == Outside(p) /\ HeaderLevel(Line(p)) # 0

TakesUnordered(p) == Outside(p) /\ HeaderLevel(Line(p)) = 0 /\ IsUnordered(Line(p))

TakesOrdered(p) ==
    /\ Outside(p)
    /\ HeaderLevel(Line(p)) = 0
    /\ ~IsUnordered(Line(p))
    /\ IsOrdered(Line(p))

TakesDefault(p) ==
    /\ Outside(p)
    /\ HeaderLevel(Line(p)) = 0
    /\ ~IsUnordered(Line(p))
    /\ ~IsOrdered(Line(p))

\* while i < len(lines) is false
LoopOver(p) == pc[p] = "loop" /\ ~(i[p] < Len(lines[p]))

conv_vars == <<text, lines, i, in_code_block, result, reads, output>>

gc_vars == <<request, raw_output, formatted_output>>

\* lines = text.split('\n'); in_code_block = False; result = []; i = 0
Call(p) ==
    /\ pc[p] = "call"
    /\ lines' = [lines EXCEPT ![p] = Split(text[p])]
    /\ in_code_block' = [in_code_block EXCEPT ![p] = FALSE]
    /\ result' = [result EXCEPT ![p] = <<>>]
    /\ i' = [i EXCEPT ![p] = 0]
    /\ pc' = [pc EXCEPT ![p] = "loop"]
    /\ UNCHANGED <<text, reads, output, gc_vars>>

\* if line.startswith(fence marker): open or close the fence
FenceDelimiter(p) ==
    /\ TakesFence(p)
    /\ result' = AppendTo(result, p,
            IF ~in_code_block[p]
            THEN <<Frag("fence_open", i[p], FenceOpen(Line(p)))>>
            ELSE <<Frag("fence_close", i[p], FenceClose)>>)
    /\ in_code_block' = [in_code_block EXCEPT ![p] = ~@]
    /\ i' = [i EXCEPT ![p] = @ + 1]
    /\ reads' = [reads EXCEPT ![p] = {i[p]}]
    /\ UNCHANGED <<text, lines, output, pc, gc_vars>>

\* if in_code_block: the escaped line
FencedContent(p) ==
    /\ TakesCode(p)
    /\ result' = AppendTo(result, p, <<Frag("code", i[p], Escape(Line(p)))>>)
    /\ i' = [i EXCEPT ![p] = @ + 1]
    /\ reads' = [reads EXCEPT ![p] = {i[p]}]
    /\ UNCHANGED <<text, lines, in_code_block, output, pc, gc_vars>>

\* the four header branches
Header(p) ==
    /\ TakesHeader(p)
    /\ result' = AppendTo(result, p, <<Frag("header", i[p], HeaderFrag(Line(p)))>>)
    /\ i' = [i EXCEPT ![p] = @ + 1]
    /\ reads' = [reads EXCEPT ![p] = {i[p]}]
    /\ UNCHANGED <<text, lines, in_code_block, output, pc, gc_vars>>

\* a list-item step: an out-of-range read raises IndexError out of the call
ListStep(p, frs) ==
    /\ reads' = [reads EXCEPT ![p] = ListReads(lines[p], i[p])]
    /\ IF \E k \in ListReads(lines[p], i[p]) : Raises(lines[p], k)
       THEN /\ pc' = [pc EXCEPT ![p] = "raised"]
            /\ UNCHANGED <<result, i>>
       ELSE /\ result' = AppendTo(result, p, frs)
            /\ i' = [i EXCEPT ![p] = @ + 1]
            /\ UNCHANGED pc
    /\ UNCHANGED <<text, lines, in_code_block, output, gc_vars>>

\* elif line.startswith('- ')
UnorderedItem(p) ==
    /\ TakesUnordered(p)
    /\ ListStep(p,
         (IF UlOpens(lines[p], i[p]) THEN <<Frag("ul_open", i[p], <<"<", "u", "l", ">">>)>> ELSE <<>>)
         \o <<Frag("ul_item", i[p], UnorderedFrag(Line(p)))>>
         \o (IF UlCloses(lines[p], i[p]) THEN <<Frag("ul_close", i[p], <<"<", "/", "u", "l", ">">>)>> ELSE <<>>))

\* elif line.strip() and line[0].isdigit() and line[1:].startswith('. ')
OrderedItem(p) ==
    /\ TakesOrdered(p)
    /\ ListStep(p,
         (IF OlOpens(lines[p], i[p]) THEN <<Frag("ol_open", i[p], <<"<", "o", "l", ">">>)>> ELSE <<>>)
         \o <<Frag("ol_item", i[p], OrderedFrag(Line(p)))>>
         \o (IF OlCloses(lines[p], i[p]) THEN <<Frag("ol_close", i[p], <<"<", "/", "o", "l", ">">>)>> ELSE <<>>))

\* else: regular text with inline formatting, or a blank line
DefaultText(p) ==
    /\ TakesDefault(p)
    /\ result' = AppendTo(result, p, <<Frag("default", i[p], DefaultFrag(Line(p)))>>)
    /\ i' = [i EXCEPT ![p] = @ + 1]
    /\ reads' = [reads EXCEPT ![p] = {i[p]}]
    /\ UNCHANGED <<text, lines, in_code_block, output, pc, gc_vars>>

\* the end of input inside a fence left without its closing markup
UnclosedLeftOpen(flag, k) == <<>>

\* if in_code_block: result.append(closing markup), after the loop
Unclosed(flag, k) == IF flag THEN <<Frag("force_close", k, FenceClose)>> ELSE <<>>

\* the loop is over: close an open fence, join and return
Return(p) ==
    /\ LoopOver(p)
    /\ LET res == AppendTo(result, p, Unclosed(in_code_block[p], i[p]))
       IN  /\ result' = res
           /\ output' = [output EXCEPT ![p] = Join(Strings(res[p]))]
    /\ pc' = [pc EXCEPT ![p] = "done"]
    /\ UNCHANGED <<text, lines, i, in_code_block, reads, gc_vars>>

Convert(p) ==
    \/ Call(p)
    \/ FenceDelimiter(p)
    \/ FencedContent(p)
    \/ Header(p)
    \/ UnorderedItem(p)
    \/ OrderedItem(p)
    \/ DefaultText(p)
    \/ Return(p)

Next == \E p \in Calls : Convert(p)

(***************************************************************************)
(* The inputs.  Texts are built from lines and joined with line breaks,    *)
(* so that the call splits them again.                                     *)
(***************************************************************************)
RECURSIVE SeqsUpTo(_, _)
SeqsUpTo(S, n) ==
    IF n = 0 THEN {<<>>}
    ELSE LET r == SeqsUpTo(S, n - 1)
         IN  r \cup {Append(s, c) : s \in r, c \in S}

RECURSIVE JoinRaw(_)
JoinRaw(l) ==
    IF Len(l) = 1 THEN l[1] ELSE l[1] \o <<"\n">> \o JoinRaw(Tail(l))

\* documents of 1..MaxLines lines, each line one of every kind
BaseLines == {<<BQ, BQ, BQ>>, <<BQ, BQ, BQ, "p", "y">>, <<"-", " ", "a">>, <<"1", ".", " ", "b">>, <<"#", " ", "c">>, <<>>, <<"d", "<">>}

BaseDocs == SeqsUpTo(BaseLines, MaxLines) \ {<<>>}

\* one line: a marker, or nearly a marker, followed by a short body
Markers ==
    {<<>>, <<"#", " ">>, <<"#", "#", " ">>, <<"#", "#", "#", " ">>, <<"#", "#", "#", "#", " ">>, <<"#", "#", "#", "#", "#", " ">>, <<"#", "#", "#", "#", "#", "#", " ">>,
     <<"#">>, <<"#", "#", "#", "#">>, <<"#", "#", "#", "#", "#">>, <<" ", "#", " ">>, <<"-", " ">>, <<"-">>, <<" ", "-", " ">>, <<"1", ".", " ">>, <<"1", ".">>, <<"1">>,
     <<"1", "2", ".", " ">>, <<"a", ".", " ">>, <<BQ, BQ, BQ>>, <<BQ, BQ>>, <<BQ, BQ, BQ, " ">>}

BodyChars == {"a", " ", "*", "<", ">", "&"}

Bodies == SeqsUpTo(BodyChars, MaxBody) \cup BlockTags \cup {<<"&", "l", "t", ";">>, <<"<", "p", ">">>}

MarkedLines == {m \o b : m \in Markers, b \in Bodies}

\* one line with two bold spans: four bold delimiters around plain text
PlainSegs == {<<>>, <<"a">>, <<" ">>}

FourBold(a, b, c, d, e) == a \o <<"*", "*">> \o b \o <<"*", "*">> \o c \o <<"*", "*">> \o d \o <<"*", "*">> \o e

BoldLines ==
    {FourBold(a, b, c, d, e) : a \in PlainSegs, b \in {<<"a">>, <<"b", "o", "l", "d">>},
                               c \in {<<" ">>, <<" ", "a", "n", "d", " ">>}, d \in {<<"a">>, <<"m", "o", "r", "e">>},
                               e \in PlainSegs}

\* one line with 0..MaxLinks link patterns between plain text
LinkTexts == {<<"t">>, <<"g", "o">>}

LinkUrls == {<<"u">>, <<"h", ":", "/", "x">>}

Link(t, u) == <<"[">> \o t \o <<"]", "(">> \o u \o <<")">>

\* the pieces of a line with n links: <<seg, t, u, seg, ..., t, u, seg>>
RECURSIVE LinkPieces(_)
LinkPieces(n) ==
    IF n = 0 THEN {<<s>> : s \in PlainSegs}
    ELSE {l \o <<t, u, s>> : l \in LinkPieces(n - 1), t \in LinkTexts,
                             u \in LinkUrls, s \in PlainSegs}

RECURSIVE LinkSource(_)
LinkSource(ps) ==
    IF Len(ps) = 1 THEN ps[1]
    ELSE ps[1] \o Link(ps[2], ps[3]) \o LinkSource(SubSeq(ps, 4, Len(ps)))

AllLinkPieces == UNION {LinkPieces(n) : n \in 0..MaxLinks}

LinkLines == {LinkSource(ps) : ps \in AllLinkPieces}

\* documents of 1..MaxDefault lines that all go to the else branch: blank
\* ones, ones with a block tag, and ones with inline markup only
DefaultLines == {<<" ", "\t">>, <<"\r">>, <<"<", "l", "i", ">", "*", "a", "*">>, <<"a", " ", "<", "o", "l", ">">>, <<"*", "a", "*", " ", "[", "t", "]", "(", "u", ")">>}

DefaultDocs == SeqsUpTo(DefaultLines, MaxDefault) \ {<<>>}

Texts ==
    {JoinRaw(d) : d \in BaseDocs}
    \cup {JoinRaw(d) : d \in DefaultDocs}
    \cup MarkedLines
    \cup {<<BQ, BQ, BQ>> \o <<"\n">> \o l : l \in MarkedLines}
    \cup BoldLines
    \cup LinkLines

(***************************************************************************)
(* One call of the converter on any text of Texts.                         *)
(***************************************************************************)
NoRequest == [kind |-> "none"]

Fresh ==
    /\ lines = [p \in Calls |-> <<>>]
    /\ i = [p \in Calls |-> 0]
    /\ in_code_block = [p \in Calls |-> FALSE]
    /\ result = [p \in Calls |-> <<>>]
    /\ reads = [p \in Calls |-> {}]
    /\ output = [p \in Calls |-> <<>>]
    /\ raw_output = <<>>
    /\ formatted_output = <<>>

Init ==
    /\ \E t \in Texts : text = [p \in Calls |-> IF p = 1 THEN t ELSE <<>>]
    /\ pc = [p \in Calls |-> IF p = 1 THEN "call" ELSE "idle"]
    /\ request = NoRequest
    /\ Fresh

Spec == Init /\ [][Next]_vars

(***************************************************************************)
(* C1: for every input the call terminates and returns without raising;    *)
(* the cursor starts at 0, grows by exactly one on every loop iteration,   *)
(* stays within 0..len(lines), the loop ends exactly when it equals        *)
(* len(lines), and every line index read (the line itself, the lookback    *)
(* i-1, the lookahead i+1) lies in 0..len(lines)-1.  Termination is the    *)
(* variant len(lines) - i, which every iteration decreases and which is    *)
(* never negative, together with a call in the loop always having exactly  *)
(* one step to take.                                                       *)
(***************************************************************************)
C1_Takes(p) ==
    <<TakesFence(p), TakesCode(p), TakesHeader(p), TakesUnordered(p),
      TakesOrdered(p), TakesDefault(p), LoopOver(p)>>

C1_CursorInv ==
    \A p \in Calls :
        /\ pc[p] # "raised"
        /\ pc[p] \in {"loop", "done"} =>
              /\ Len(lines[p]) >= 1
              /\ 0 <= i[p] /\ i[p] <= Len(lines[p])
              /\ reads[p] \subseteq 0..(Len(lines[p]) - 1)
              /\ (result[p] = <<>> /\ pc[p] = "loop" => i[p] = 0)
        /\ pc[p] = "done" => i[p] = Len(lines[p])
        /\ pc[p] = "loop" =>
              Cardinality({b \in 1..7 : C1_Takes(p)[b]}) = 1

C1_CursorStep ==
    \A p \in Calls :
        /\ pc[p] = "call" => pc'[p] \in {"call", "loop"}
        /\ pc[p] = "call" /\ pc'[p] = "loop" => i'[p] = 0
        /\ pc[p] = "loop" => pc'[p] \in {"loop", "done"}
        /\ pc[p] = "loop" /\ pc'[p] = "loop" /\ i[p] < Len(lines[p]) =>
              i'[p] = i[p] + 1 \/ UNCHANGED vars
        /\ pc[p] = "loop" /\ i[p] >= Len(lines[p]) =>
              (pc'[p] = "done" /\ i'[p] = i[p]) \/ UNCHANGED vars
        /\ pc[p] = "loop" /\ pc'[p] = "done" => i[p] = Len(lines[p])

C1_Total == [](C1_CursorInv) /\ [][C1_CursorStep]_vars

\* a call returned whose first and last lines are list items of a run
C1_Witness ==
    /\ pc[1] = "done"
    /\ Len(lines[1]) >= 2
    /\ IsUnordered(At(lines[1], 0))
    /\ IsUnordered(At(lines[1], Len(lines[1]) - 1))
    /\ reads[1] = {Len(lines[1]) - 2, Len(lines[1]) - 1}

(***************************************************************************)
(* The converter as a function of its input: the strings one call          *)
(* appends from line k on, run alone.                                      *)
(***************************************************************************)
RECURSIVE AppendedFrom(_, _, _)
AppendedFrom(ls, k, flag) ==
    IF ~(k < Len(ls)) THEN Strings(Unclosed(flag, k))
    ELSE LET l == At(ls, k)
         IN  IF IsFence(l)
             THEN <<IF ~flag THEN FenceOpen(l) ELSE FenceClose>>
                  \o AppendedFrom(ls, k + 1, ~flag)
             ELSE IF flag THEN <<Escape(l)>> \o AppendedFrom(ls, k + 1, flag)
             ELSE IF HeaderLevel(l) # 0
             THEN <<HeaderFrag(l)>> \o AppendedFrom(ls, k + 1, flag)
             ELSE IF IsUnordered(l)
             THEN (IF UlOpens(ls, k) THEN <<<<"<", "u", "l", ">">>>> ELSE <<>>)
                  \o <<UnorderedFrag(l)>>
                  \o (IF UlCloses(ls, k) THEN <<<<"<", "/", "u", "l", ">">>>> ELSE <<>>)
                  \o AppendedFrom(ls, k + 1, flag)
             ELSE IF IsOrdered(l)
             THEN (IF OlOpens(ls, k) THEN <<<<"<", "o", "l", ">">>>> ELSE <<>>)
                  \o <<OrderedFrag(l)>>
                  \o (IF OlCloses(ls, k) THEN <<<<"<", "/", "o", "l", ">">>>> ELSE <<>>)
                  \o AppendedFrom(ls, k + 1, flag)
             ELSE <<DefaultFrag(l)>> \o AppendedFrom(ls, k + 1, flag)

\* simple_markdown_to_html(t)
Converted(t) == Join(AppendedFrom(Split(t), 0, FALSE))

(***************************************************************************)
(* generate_completion(prompt, model_id), made by invocation 1.  request   *)
(* says what the call meets: demo mode, a provider response, or a          *)
(* requests.RequestException raised by the request.                        *)
(***************************************************************************)
\* get_available_models() in demo mode
DemoModels ==
    <<<<<<"a", "n", "t", "h", "r", "o", "p", "i", "c", "/", "c", "l", "a", "u", "d", "e", "-", "3", "-", "o", "p", "u", "s">>,
        <<"C", "l", "a", "u", "d", "e", " ", "3", " ", "O", "p", "u", "s", " ", "-", " ", "A", "n", "t", "h", "r", "o", "p", "i", "c", "'", "s", " ", "m", "o", "s", "t", " ", "p", "o", "w", "e", "r", "f", "u", "l", " ", "m", "o", "d", "e", "l">>>>,
      <<<<"a", "n", "t", "h", "r", "o", "p", "i", "c", "/", "c", "l", "a", "u", "d", "e", "-", "3", "-", "s", "o", "n", "n", "e", "t">>,
        <<"C", "l", "a", "u", "d", "e", " ", "3", " ", "S", "o", "n", "n", "e", "t", " ", "-", " ", "B", "a", "l", "a", "n", "c", "e", "d", " ", "m", "o", "d", "e", "l">>>>,
      <<<<"a", "n", "t", "h", "r", "o", "p", "i", "c", "/", "c", "l", "a", "u", "d", "e", "-", "3", "-", "h", "a", "i", "k", "u">>,
        <<"C", "l", "a", "u", "d", "e", " ", "3", " ", "H", "a", "i", "k", "u", " ", "-", " ", "F", "a", "s", "t", " ", "m", "o", "d", "e", "l">>>>,
      <<<<"o", "p", "e", "n", "a", "i", "/", "g", "p", "t", "-", "4", "o">>,
        <<"G", "P", "T", "-", "4", "o", " ", "-", " ", "O", "p", "e", "n", "A", "I", "'", "s", " ", "l", "a", "t", "e", "s", "t", " ", "m", "o", "d", "e", "l">>>>,
      <<<<"o", "p", "e", "n", "a", "i", "/", "g", "p", "t", "-", "4", "-", "t", "u", "r", "b", "o">>,
        <<"G", "P", "T", "-", "4", " ", "T", "u", "r", "b", "o", " ", "-", " ", "P", "o", "w", "e", "r", "f", "u", "l", " ", "m", "o", "d", "e", "l">>>>,
      <<<<"o", "p", "e", "n", "a", "i", "/", "g", "p", "t", "-", "3", ".", "5", "-", "t", "u", "r", "b", "o">>,
        <<"G", "P", "T", "-", "3", ".", "5", " ", "T", "u", "r", "b", "o", " ", "-", " ", "F", "a", "s", "t", " ", "a", "n", "d", " ", "e", "f", "f", "i", "c", "i", "e", "n", "t">>>>,
      <<<<"g", "o", "o", "g", "l", "e", "/", "g", "e", "m", "i", "n", "i", "-", "p", "r", "o">>,
        <<"G", "e", "m", "i", "n", "i", " ", "P", "r", "o", " ", "-", " ", "G", "o", "o", "g", "l", "e", "'", "s", " ", "f", "l", "a", "g", "s", "h", "i", "p", " ", "m", "o", "d", "e", "l">>>>,
      <<<<"m", "e", "t", "a", "-", "l", "l", "a", "m", "a", "/", "l", "l", "a", "m", "a", "-", "3", "-", "7", "0", "b", "-", "i", "n", "s", "t", "r", "u", "c", "t">>,
        <<"L", "l", "a", "m", "a", " ", "3", " ", "7", "0", "B", " ", "-", " ", "M", "e", "t", "a", "'", "s", " ", "l", "a", "r", "g", "e", " ", "m", "o", "d", "e", "l">>>>>>

\* next((name for id, name in models if id == model_id), model_id)
RECURSIVE NameIn(_, _)
NameIn(models, model_id) ==
    IF models = <<>> THEN model_id
    ELSE IF Head(models)[1] = model_id THEN Head(models)[2]
    ELSE NameIn(Tail(models), model_id)

\* the f-string of _get_demo_response
DemoText(model_name, prompt) ==
       <<"#", " ", "R", "e", "s", "p", "o", "n", "s", "e", " ", "f", "r", "o", "m", " ">>
    \o model_name
    \o <<"\n">>
    \o <<"\n">>
    \o <<"T", "h", "i", "s", " ", "i", "s", " ", "a", " ", "d", "e", "m", "o", " ", "r", "e", "s", "p", "o", "n", "s", "e", " ", "s", "i", "n", "c", "e", " ", "n", "o", " ", "O", "p", "e", "n", "R", "o", "u", "t", "e", "r", " ", "A", "P", "I", " ", "k", "e", "y", " ", "w", "a", "s", " ", "p", "r", "o", "v", "i", "d", "e", "d", ".", " ", "I", "n", " ", "a", " ", "p", "r", "o", "d", "u", "c", "t", "i", "o", "n", " ", "e", "n", "v", "i", "r", "o", "n", "m", "e", "n", "t", ",", " ", "t", "h", "i", "s", " ", "w", "o", "u", "l", "d", " ", "b", "e", " ", "a", "n", " ", "a", "c", "t", "u", "a", "l", " ", "r", "e", "s", "p", "o", "n", "s", "e", " ", "f", "r", "o", "m", " ", "t", "h", "e", " ", "s", "e", "l", "e", "c", "t", "e", "d", " ", "A", "I", " ", "m", "o", "d", "e", "l", ".", "\n">>
    \o <<"\n">>
    \o <<"#", "#", " ", "A", "b", "o", "u", "t", " ", "Y", "o", "u", "r", " ", "P", "r", "o", "m", "p", "t", "\n">>
    \o <<"\n">>
    \o <<"Y", "o", "u", " ", "a", "s", "k", "e", "d", ":", "\n">>
    \o <<"\n">>
    \o <<">", " ">>
    \o prompt
    \o <<"\n">>
    \o <<"\n">>
    \o <<"#", "#", " ", "S", "a", "m", "p", "l", "e", " ", "R", "e", "s", "p", "o", "n", "s", "e", "\n">>
    \o <<"\n">>
    \o <<"H", "e", "r", "e", "'", "s", " ", "h", "o", "w", " ", "t", "h", "e", " ", "A", "I", " ", "m", "i", "g", "h", "t", " ", "r", "e", "s", "p", "o", "n", "d", " ", "t", "o", " ", "y", "o", "u", "r", " ", "p", "r", "o", "m", "p", "t", ":", "\n">>
    \o <<"\n">>
    \o <<"1", ".", " ", "F", "i", "r", "s", "t", " ", "p", "o", "i", "n", "t", " ", "a", "b", "o", "u", "t", " ", "y", "o", "u", "r", " ", "q", "u", "e", "r", "y", "\n">>
    \o <<"2", ".", " ", "S", "e", "c", "o", "n", "d", " ", "p", "o", "i", "n", "t", " ", "w", "i", "t", "h", " ", "m", "o", "r", "e", " ", "d", "e", "t", "a", "i", "l", "s", "\n">>
    \o <<"3", ".", " ", "T", "h", "i", "r", "d", " ", "p", "o", "i", "n", "t", " ", "w", "i", "t", "h", " ", "s", "o", "m", "e", " ", "a", "n", "a", "l", "y", "s", "i", "s", "\n">>
    \o <<"\n">>
    \o <<"#", "#", "#", " ", "C", "o", "d", "e", " ", "E", "x", "a", "m", "p", "l", "e", "\n">>
    \o <<"\n">>
    \o <<BQ, BQ, BQ, "p", "y", "t", "h", "o", "n", "\n">>
    \o <<"d", "e", "f", " ", "e", "x", "a", "m", "p", "l", "e", "_", "f", "u", "n", "c", "t", "i", "o", "n", "(", ")", ":", "\n">>
    \o <<" ", " ", " ", " ", "p", "r", "i", "n", "t", "(", "\"", "T", "h", "i", "s", " ", "i", "s", " ", "j", "u", "s", "t", " ", "a", " ", "d", "e", "m", "o", "n", "s", "t", "r", "a", "t", "i", "o", "n", "\"", ")", "\n">>
    \o <<" ", " ", " ", " ", "r", "e", "t", "u", "r", "n", " ", "\"", "N", "o", " ", "a", "c", "t", "u", "a", "l", " ", "A", "P", "I", " ", "c", "a", "l", "l", " ", "w", "a", "s", " ", "m", "a", "d", "e", "\"", "\n">>
    \o <<BQ, BQ, BQ, "\n">>
    \o <<"\n">>
    \o <<"*", "*", "I", "m", "p", "o", "r", "t", "a", "n", "t", " ", "n", "o", "t", "e", ":", "*", "*", " ", "T", "o", " ", "g", "e", "t", " ", "r", "e", "a", "l", " ", "r", "e", "s", "p", "o", "n", "s", "e", "s", " ", "f", "r", "o", "m", " ", "A", "I", " ", "m", "o", "d", "e", "l", "s", ",", " ", "y", "o", "u", "'", "l", "l", " ", "n", "e", "e", "d", " ", "t", "o", ":", "\n">>
    \o <<"\n">>
    \o <<"-", " ", "C", "r", "e", "a", "t", "e", " ", "a", "n", " ", "a", "c", "c", "o", "u", "n", "t", " ", "a", "t", " ", "[", "O", "p", "e", "n", "R", "o", "u", "t", "e", "r", "]", "(", "h", "t", "t", "p", "s", ":", "/", "/", "o", "p", "e", "n", "r", "o", "u", "t", "e", "r", ".", "a", "i", "/", ")", "\n">>
    \o <<"-", " ", "G", "e", "t", " ", "a", "n", " ", "A", "P", "I", " ", "k", "e", "y", "\n">>
    \o <<"-", " ", "S", "e", "t", " ", "i", "t", " ", "a", "s", " ", "a", "n", " ", "e", "n", "v", "i", "r", "o", "n", "m", "e", "n", "t", " ", "v", "a", "r", "i", "a", "b", "l", "e", " ", "o", "r", " ", "i", "n", " ", "y", "o", "u", "r", " ", "s", "e", "t", "t", "i", "n", "g", "s", "\n">>
    \o <<"\n">>
    \o <<"*", "T", "h", "i", "s", " ", "i", "s", " ", "j", "u", "s", "t", " ", "p", "l", "a", "c", "e", "h", "o", "l", "d", "e", "r", " ", "t", "e", "x", "t", " ", "t", "o", " ", "d", "e", "m", "o", "n", "s", "t", "r", "a", "t", "e", " ", "f", "o", "r", "m", "a", "t", "t", "i", "n", "g", ".", "*", "\n">>

DemoResponse(prompt, model_id) == DemoText(NameIn(DemoModels, model_id), prompt)

\* f'Error generating completion: {str(e)}'
ErrorMessage(e) == <<"E", "r", "r", "o", "r", " ", "g", "e", "n", "e", "r", "a", "t", "i", "n", "g", " ", "c", "o", "m", "p", "l", "e", "t", "i", "o", "n", ":", " ">> \o e

\* f'<p>{error_message}</p>'
ErrorMarkup(msg) == <<"<", "p", ">">> \o msg \o <<"<", "/", "p", ">">>

\* result.get(choices, [{}])[0].get(message, {}).get(content, 'No response')
Content(r) == IF r.has_content THEN r.content ELSE <<"N", "o", " ", "r", "e", "s", "p", "o", "n", "s", "e">>

\* if self.demo_mode: the demo response goes to the converter
GCDemo ==
    /\ pc[1] = "gc"
    /\ request.kind = "demo"
    /\ raw_output' = DemoResponse(request.prompt, request.model_id)
    /\ text' = [text EXCEPT ![1] = DemoResponse(request.prompt, request.model_id)]
    /\ pc' = [pc EXCEPT ![1] = "call"]
    /\ UNCHANGED <<lines, i, in_code_block, result, reads, output, request,
                   formatted_output>>

\* the request succeeds: the content of the first choice goes to the converter
GCResponse ==
    /\ pc[1] = "gc"
    /\ request.kind = "ok"
    /\ raw_output' = Content(request)
    /\ text' = [text EXCEPT ![1] = Content(request)]
    /\ pc' = [pc EXCEPT ![1] = "call"]
    /\ UNCHANGED <<lines, i, in_code_block, result, reads, output, request,
                   formatted_output>>

\* the response has an empty list of choices: [0] raises IndexError, not caught
GCNoChoice ==
    /\ pc[1] = "gc"
    /\ request.kind = "nochoice"
    /\ pc' = [pc EXCEPT ![1] = "raised"]
    /\ UNCHANGED <<conv_vars, gc_vars>>

\* except requests.RequestException as e
GCFailure ==
    /\ pc[1] = "gc"
    /\ request.kind = "fail"
    /\ raw_output' = ErrorMessage(request.error)
    /\ formatted_output' = ErrorMarkup(ErrorMessage(request.error))
    /\ pc' = [pc EXCEPT ![1] = "returned"]
    /\ UNCHANGED <<conv_vars, request>>

\* the converter returned: return raw_output and formatted_output
GCReturn ==
    /\ pc[1] = "done"
    /\ request.kind \in {"demo", "ok"}
    /\ formatted_output' = output[1]
    /\ pc' = [pc EXCEPT ![1] = "returned"]
    /\ UNCHANGED <<conv_vars, request, raw_output>>

NextGC ==
    \/ GCDemo
    \/ GCResponse
    \/ GCNoChoice
    \/ GCFailure
    \/ GCReturn
    \/ \E p \in Calls : Convert(p)

Prompts == {<<"h", "i">>, <<"a", " ", "*", "b", "*", " ", "c">>, <<"x", "\n", "-", " ", "y">>}

ModelIds == {DemoModels[k][1] : k \in 1..Len(DemoModels)} \cup {<<"m", "y", "/", "m", "o", "d", "e", "l">>}

\* what str(e) of the exception may read
Errors ==
    {<<"t", "i", "m", "e", "d", " ", "o", "u", "t">>, <<"4", "0", "4", " ", "C", "l", "i", "e", "n", "t", " ", "E", "r", "r", "o", "r", ":", " ", "N", "o", "t", " ", "F", "o", "u", "n", "d", " ", "f", "o", "r", " ", "u", "r", "l", ":", " ", "u">>, <<"a", " ", "*", "b", "*", " ", "c">>,
     <<"x", "\n", "-", " ", "y">>, <<"[", "E", "r", "r", "n", "o", " ", "2", "]", "(", "x", ")">>, <<"<", "h", "1", ">">>, <<>>}

Requests ==
    {[kind |-> "demo", prompt |-> q, model_id |-> m] : q \in Prompts, m \in ModelIds}
    \cup {[kind |-> "ok", has_content |-> TRUE, content |-> JoinRaw(d)] : d \in BaseDocs}
    \cup {[kind |-> "ok", has_content |-> FALSE, content |-> <<>>]}
    \cup {[kind |-> "nochoice"]}
    \cup {[kind |-> "fail", error |-> e] : e \in Errors}

InitGC ==
    /\ request \in Requests
    /\ text = [p \in Calls |-> <<>>]
    /\ pc = [p \in Calls |-> IF p = 1 THEN "gc" ELSE "idle"]
    /\ Fresh

SpecGC == InitGC /\ [][NextGC]_vars

(***************************************************************************)
(* Concurrent calls of the converter, one per request being served, their  *)
(* steps interleaved in any order.                                         *)
(***************************************************************************)
ConcTexts ==
    {<<BQ, BQ, BQ, "\n", "a", "<">>, <<"-", " ", "a", "\n", "-", " ", "b">>, <<"#", " ", "c", "\n", "1", ".", " ", "d">>, <<"*", "*", "x", "*", "*", " ", "*", "y", "*">>, <<>>, <<BQ, BQ, BQ, "p", "y", "\n", "-", " ", "a", "\n", BQ, BQ, BQ, "\n", "-", " ", "b">>}

InitConc ==
    /\ text \in [Calls -> ConcTexts]
    /\ pc = [p \in Calls |-> "call"]
    /\ request = NoRequest
    /\ Fresh

SpecConc == InitConc /\ [][Next]_vars


(***************************************************************************)
(* Reading the input and the accumulator, for the statements below.        *)
(***************************************************************************)
Done(p) == pc[p] = "done"

\* the fragments appended while the cursor was in a..b
FragsOfLines(p, a, b) ==
    LET Here(f) == f.line >= a /\ f.line <= b
    IN  SelectSeq(result[p], Here)

\* the fragments appended by one of the statements in rules
FragsOfRules(p, rules) ==
    LET ByRule(f) == f.rule \in rules
    IN  SelectSeq(result[p], ByRule)

\* the number of fence delimiter lines before line k
FencesBefore(ls, k) == Cardinality({j \in 0..(k - 1) : IsFence(At(ls, j))})

\* line k is content of a fence: not a delimiter, after an odd number of them
InsideFence(ls, k) == ~IsFence(At(ls, k)) /\ FencesBefore(ls, k) % 2 = 1

\* line k is outside every fence and not a delimiter
OutsideFence(ls, k) == ~IsFence(At(ls, k)) /\ FencesBefore(ls, k) % 2 = 0

EndsWith(s, suf) == Len(s) >= Len(suf) /\ Drop(s, Len(s) - Len(suf)) = suf

(***************************************************************************)
(* C2: the fence-opening and fence-closing fragments the converter appends *)
(* strictly alternate, starting with an opening one; the flag is set       *)
(* exactly while one more opening than closing fragment was appended; at   *)
(* return the counts are equal, and when the input ends inside a fence the *)
(* closing fragment is appended by force as the last fragment of the       *)
(* output.                                                                 *)
(***************************************************************************)
C2_FenceRules == {"fence_open", "fence_close", "force_close"}

C2_IsOpening(f) ==
    /\ f.rule = "fence_open"
    /\ StartsWith(f.frag, <<"<", "p", "r", "e", ">", "<", "c", "o", "d", "e", " ", "c", "l", "a", "s", "s", "=", "\"", "l", "a", "n", "g", "u", "a", "g", "e", "-">>)
    /\ EndsWith(f.frag, <<"\"", ">">>)

C2_IsClosing(f) ==
    /\ f.rule \in {"fence_close", "force_close"}
    /\ f.frag = <<"<", "/", "c", "o", "d", "e", ">", "<", "/", "p", "r", "e", ">">>

C2_FencesAlternate ==
    \A p \in Calls :
        LET F == FragsOfRules(p, C2_FenceRules)
            last == Len(lines[p]) - 1
            forced == (FencesBefore(lines[p], last + 1) % 2 = 1)
        IN  /\ \A j \in 1..Len(F) :
                 IF j % 2 = 1 THEN C2_IsOpening(F[j]) ELSE C2_IsClosing(F[j])
            /\ \A j \in 1..Len(result[p]) :
                 result[p][j].frag = <<"<", "/", "c", "o", "d", "e", ">", "<", "/", "p", "r", "e", ">">> => C2_IsClosing(result[p][j])
            /\ pc[p] = "loop" => (in_code_block[p] <=> Len(F) % 2 = 1)
            /\ Done(p) =>
                 /\ Len(F) % 2 = 0
                 /\ Len(F) = FencesBefore(lines[p], last + 1) + (IF forced THEN 1 ELSE 0)
                 /\ forced <=> in_code_block[p]
                 /\ forced <=> (\E j \in 1..Len(F) : F[j].rule = "force_close")
                 /\ forced =>
                      /\ result[p][Len(result[p])].rule = "force_close"
                      /\ EndsWith(output[p], <<"<", "/", "c", "o", "d", "e", ">", "<", "/", "p", "r", "e", ">">>)
                 /\ \A j \in 1..Len(result[p]) :
                      result[p][j].rule = "force_close" => j = Len(result[p])

\* a call returned that opened, closed and reopened a fence and closed it by force
C2_Witness ==
    /\ Done(1)
    /\ in_code_block[1]
    /\ Len(FragsOfRules(1, C2_FenceRules)) = 4
    /\ result[1][Len(result[1])].rule = "force_close"

(***************************************************************************)
(* C3: each maximal run of k adjacent unordered-item lines outside a fence *)
(* gives exactly one list-opening fragment, the k items in input order,    *)
(* and one list-closing fragment, next to each other in the output; the    *)
(* same for the runs of ordered-item lines with the ordered wrapper; runs  *)
(* of different kinds are never under one wrapper, and the list            *)
(* statements append nothing for any other line.                           *)
(***************************************************************************)
C3_IsUl(ls, k) == OutsideFence(ls, k) /\ StartsWith(At(ls, k), <<"-", " ">>)

C3_IsOl(ls, k) ==
    LET l == At(ls, k)
    IN  /\ OutsideFence(ls, k)
        /\ Len(l) >= 3
        /\ IsDigit(l[1])
        /\ l[2] = "."
        /\ l[3] = " "

C3_Kind(ls, k) ==
    IF C3_IsUl(ls, k) THEN "ul" ELSE IF C3_IsOl(ls, k) THEN "ol" ELSE "none"

\* a..b is a maximal run of lines of kind
C3_IsRun(ls, a, b, kind) ==
    /\ a <= b
    /\ \A k \in a..b : C3_Kind(ls, k) = kind
    /\ a = 0 \/ C3_Kind(ls, a - 1) # kind
    /\ b = Len(ls) - 1 \/ C3_Kind(ls, b + 1) # kind

C3_ItemText(l, kind) == IF kind = "ul" THEN Drop(l, 2) ELSE Drop(l, 3)

C3_Expected(ls, a, b, kind) ==
    <<IF kind = "ul" THEN <<"<", "u", "l", ">">> ELSE <<"<", "o", "l", ">">>>>
    \o [k \in 1..(b - a + 1) |->
            <<"<", "l", "i", ">">> \o C3_ItemText(At(ls, a + k - 1), kind) \o <<"<", "/", "l", "i", ">">>]
    \o <<IF kind = "ul" THEN <<"<", "/", "u", "l", ">">> ELSE <<"<", "/", "o", "l", ">">>>>

C3_ListRules == {"ul_open", "ul_item", "ul_close", "ol_open", "ol_item", "ol_close"}

C3_ListRuns ==
    \A p \in Calls :
        LET ls == lines[p]
            n == Len(ls)
        IN  /\ \A j \in 1..(Len(result[p]) - 1) :
                 result[p][j].line <= result[p][j + 1].line
            /\ \A j \in 1..Len(result[p]) :
                 LET f == result[p][j]
                 IN  f.rule \in C3_ListRules =>
                        C3_Kind(ls, f.line) =
                           (IF f.rule \in {"ul_open", "ul_item", "ul_close"}
                            THEN "ul" ELSE "ol")
            /\ Done(p) =>
                 \A a \in 0..(n - 1), b \in 0..(n - 1), kind \in {"ul", "ol"} :
                    C3_IsRun(ls, a, b, kind) =>
                       Strings(FragsOfLines(p, a, b)) = C3_Expected(ls, a, b, kind)

\* a call returned whose input has a run of two unordered items next to an ordered run
C3_Witness ==
    /\ Done(1)
    /\ Len(lines[1]) >= 3
    /\ C3_IsRun(lines[1], 0, 1, "ul")
    /\ C3_IsRun(lines[1], 2, 2, "ol")

(***************************************************************************)
(* C4: inside a fence every line that is not a delimiter gives exactly one *)
(* fragment, the line with each ampersand, less-than and greater-than      *)
(* character replaced by its entity, character by character (nothing is    *)
(* escaped twice, no raw angle bracket is left, no header, list or inline  *)
(* rewriting is applied); a delimiter line gives only opening or closing   *)
(* markup, never code content.                                             *)
(***************************************************************************)
C4_Entity(c) ==
    IF c = "&" THEN <<"&", "a", "m", "p", ";">>
    ELSE IF c = "<" THEN <<"&", "l", "t", ";">>
    ELSE IF c = ">" THEN <<"&", "g", "t", ";">>
    ELSE <<c>>

RECURSIVE C4_Escaped(_)
C4_Escaped(l) == IF l = <<>> THEN <<>> ELSE C4_Entity(Head(l)) \o C4_Escaped(Tail(l))

C4_FencedVerbatim ==
    \A p \in Calls :
        /\ \A j \in 1..Len(result[p]) :
             LET f == result[p][j]
             IN  f.rule = "code" => InsideFence(lines[p], f.line)
        /\ Done(p) =>
             \A k \in 0..(Len(lines[p]) - 1) :
                LET F == FragsOfLines(p, k, k)
                    l == At(lines[p], k)
                IN  /\ InsideFence(lines[p], k) =>
                         /\ Len(F) = 1
                         /\ F[1].rule = "code"
                         /\ F[1].frag = C4_Escaped(l)
                         /\ ~Contains(F[1].frag, <<"<">>)
                         /\ ~Contains(F[1].frag, <<">">>)
                    /\ IsFence(l) =>
                         /\ Len(F) = 1
                         /\ F[1].rule \in {"fence_open", "fence_close"}
                         /\ F[1].frag \in {FenceClose, FenceOpen(l)}
                         /\ F[1].frag # l

\* a call returned after a fenced line holding markup and an entity-like text
C4_Witness ==
    /\ Done(1)
    /\ \E k \in 0..(Len(lines[1]) - 1) :
          /\ InsideFence(lines[1], k)
          /\ Contains(At(lines[1], k), <<"&", "l", "t", ";">>)
          /\ \E j \in 1..Len(result[1]) :
                /\ result[1][j].line = k
                /\ result[1][j].frag = <<"&", "a", "m", "p", ";", "l", "t", ";">>

(***************************************************************************)
(* C5 as stated: outside a fence a line gives a heading of level n, its    *)
(* marker and the space stripped, if and only if it starts with exactly n  *)
(* hash characters and a space, n in 1..4; a line with five or more        *)
(* leading hash characters is never a heading, goes to the default case    *)
(* and is wrapped in a paragraph element.                                  *)
(***************************************************************************)
RECURSIVE C5_Hashes(_)
C5_Hashes(l) == IF l # <<>> /\ Head(l) = "#" THEN 1 + C5_Hashes(Tail(l)) ELSE 0

C5_IsHeading(l) ==
    LET n == C5_Hashes(l)
    IN  n \in 1..4 /\ Len(l) > n /\ l[n + 1] = " "

C5_Heading(l) ==
    LET n == C5_Hashes(l)
        d == <<"1", "2", "3", "4">>[n]
    IN  <<"<", "h", d, ">">> \o Drop(l, n + 1) \o <<"<", "/", "h", d, ">">>

C5_Paragraph(l) == <<"<", "p", ">">> \o InlineFormat(l) \o <<"<", "/", "p", ">">>

\* the lines outside a fence that a returned call p has read
C5_OutsideLines(p) ==
    IF Done(p) THEN {k \in 0..(Len(lines[p]) - 1) : OutsideFence(lines[p], k)} ELSE {}

\* a heading exactly for the lines of one to four hashes and a space
C5_HeadingLines ==
    \A p \in Calls : \A k \in C5_OutsideLines(p) :
        LET F == FragsOfLines(p, k, k)
            l == At(lines[p], k)
        IN  /\ C5_IsHeading(l) <=> (\E j \in 1..Len(F) : F[j].rule = "header")
            /\ C5_IsHeading(l) => Strings(F) = <<C5_Heading(l)>>
            /\ C5_Hashes(l) >= 5 => Len(F) = 1 /\ F[1].rule = "default"

C5_HeadingIffAsStated ==
    /\ C5_HeadingLines
    /\ \A p \in Calls : \A k \in C5_OutsideLines(p) :
          LET l == At(lines[p], k)
          IN  C5_Hashes(l) >= 5 =>
                 Strings(FragsOfLines(p, k, k)) = <<C5_Paragraph(l)>>

(***************************************************************************)
(* C5 amended: as stated, but a line with five or more leading hash        *)
(* characters is wrapped in a paragraph element only when its formatted    *)
(* text holds none of the block tags (h1..h4, ul, ol, li opening tags);    *)
(* when it holds one, the formatted text is emitted unwrapped.             *)
(***************************************************************************)
C5_HeadingIff ==
    /\ C5_HeadingLines
    /\ \A p \in Calls : \A k \in C5_OutsideLines(p) :
          LET l == At(lines[p], k)
          IN  C5_Hashes(l) >= 5 =>
                 Strings(FragsOfLines(p, k, k)) =
                    <<IF HasBlockTag(InlineFormat(l)) THEN InlineFormat(l)
                      ELSE C5_Paragraph(l)>>

\* a call returned on a line of five hashes, a space and a block tag
C5_Witness ==
    /\ Done(1)
    /\ lines[1] = <<<<"#", "#", "#", "#", "#", " ", "<", "l", "i", ">">>>>
    /\ Strings(result[1]) = <<<<"#", "#", "#", "#", "#", " ", "<", "l", "i", ">">>>>

(***************************************************************************)
(* C6 as stated: a default-case line with four bold delimiters has only    *)
(* the first pair converted, to an opening and a closing strong tag, and   *)
(* the other two delimiters are left in the output as they are.            *)
(***************************************************************************)
\* the segments around the four delimiters of a line of BoldLines
C6_Segments(l) ==
    CHOOSE q \in PlainSegs \X {<<"a">>, <<"b", "o", "l", "d">>} \X {<<" ">>, <<" ", "a", "n", "d", " ">>}
                  \X {<<"a">>, <<"m", "o", "r", "e">>} \X PlainSegs :
        FourBold(q[1], q[2], q[3], q[4], q[5]) = l

C6_TwoLeft(q) ==
    <<"<", "p", ">">> \o q[1] \o <<"<", "s", "t", "r", "o", "n", "g", ">">> \o q[2] \o <<"<", "/", "s", "t", "r", "o", "n", "g", ">">> \o q[3]
           \o <<"*", "*">> \o q[4] \o <<"*", "*">> \o q[5] \o <<"<", "/", "p", ">">>

\* the lines of BoldLines outside a fence that a returned call p has read
C6_BoldLinesOf(p) ==
    IF Done(p)
    THEN {k \in 0..(Len(lines[p]) - 1) :
             OutsideFence(lines[p], k) /\ At(lines[p], k) \in BoldLines}
    ELSE {}

C6_FirstPairOnlyAsStated ==
    \A p \in Calls : \A k \in C6_BoldLinesOf(p) :
        Strings(FragsOfLines(p, k, k)) = <<C6_TwoLeft(C6_Segments(At(lines[p], k)))>>

(***************************************************************************)
(* C6 amended: a default-case line with four bold delimiters has only the  *)
(* first pair converted to strong tags; of the other two delimiters the    *)
(* third is taken by the italic step, which replaces its two characters    *)
(* by an opening and a closing emphasis tag, and only the fourth is left   *)
(* in the output as it is.                                                 *)
(***************************************************************************)
C6_OneLeft(q) ==
    <<"<", "p", ">">> \o q[1] \o <<"<", "s", "t", "r", "o", "n", "g", ">">> \o q[2] \o <<"<", "/", "s", "t", "r", "o", "n", "g", ">">> \o q[3]
           \o <<"<", "e", "m", ">", "<", "/", "e", "m", ">">> \o q[4] \o <<"*", "*">> \o q[5] \o <<"<", "/", "p", ">">>

C6_FirstPairOnly ==
    \A p \in Calls : \A k \in C6_BoldLinesOf(p) :
        Strings(FragsOfLines(p, k, k)) = <<C6_OneLeft(C6_Segments(At(lines[p], k)))>>

\* a call returned on a line of two bold spans with text around them
C6_Witness ==
    /\ Done(1)
    /\ lines[1] = <<<<"*", "*", "b", "o", "l", "d", "*", "*", " ", "a", "n", "d", " ", "*", "*", "m", "o", "r", "e", "*", "*">>>>
    /\ output[1] = <<"<", "p", ">", "<", "s", "t", "r", "o", "n", "g", ">", "b", "o", "l", "d", "<", "/", "s", "t", "r", "o", "n", "g", ">", " ", "a", "n", "d", " ", "<", "e", "m", ">", "<", "/", "e", "m", ">", "m", "o", "r", "e", "*", "*", "<", "/", "p", ">">>

(***************************************************************************)
(* C7: in a default-case line every [text](url) pattern becomes an anchor  *)
(* whose href is the url and whose content is the text: all the matches of *)
(* a line are rewritten, while bold and italic convert one pair a line.    *)
(***************************************************************************)
RECURSIVE C7_Count(_, _)
C7_Count(s, sub) ==
    LET k == Find(s, sub)
    IN  IF k = -1 THEN 0 ELSE 1 + C7_Count(Drop(s, k + Len(sub)), sub)

\* a line of LinkLines with each pattern, found by its delimiters, rewritten
RECURSIVE C7_Rewritten(_)
C7_Rewritten(l) ==
    LET a == Find(l, <<"[">>)
        afterOpen == Drop(l, a + 1)
        m == Find(afterOpen, <<"]", "(">>)
        afterMid == Drop(afterOpen, m + 2)
        e == Find(afterMid, <<")">>)
    IN  IF a = -1 THEN l
        ELSE Take(l, a) \o <<"<", "a", " ", "h", "r", "e", "f", "=", "\"">> \o Take(afterMid, e) \o <<"\"", ">">>
                 \o Take(afterOpen, m) \o <<"<", "/", "a", ">">> \o C7_Rewritten(Drop(afterMid, e + 1))

C7_AllLinks ==
    \A p \in Calls :
        Done(p) =>
          \A k \in 0..(Len(lines[p]) - 1) :
             LET l == At(lines[p], k)
                 F == Strings(FragsOfLines(p, k, k))
             IN  /\ (OutsideFence(lines[p], k) /\ l \in LinkLines /\ Strip(l) # <<>>) =>
                      /\ F = <<<<"<", "p", ">">> \o C7_Rewritten(l) \o <<"<", "/", "p", ">">>>>
                      /\ C7_Count(F[1], <<"<", "a", " ", "h", "r", "e", "f", "=">>) = C7_Count(l, <<"]", "(">>)
                      /\ C7_Count(F[1], <<"[">>) = 0
                 /\ (OutsideFence(lines[p], k) /\ l \in BoldLines) =>
                      /\ C7_Count(F[1], <<"<", "s", "t", "r", "o", "n", "g", ">">>) = 1
                      /\ C7_Count(F[1], <<"<", "e", "m", ">">>) = 1

\* a call returned on a line of two links
C7_Witness ==
    /\ Done(1)
    /\ lines[1] = <<<<"[", "g", "o", "]", "(", "h", ":", "/", "x", ")", " ", "[", "t", "]", "(", "u", ")">>>>
    /\ output[1] = <<"<", "p", ">", "<", "a", " ", "h", "r", "e", "f", "=", "\"", "h", ":", "/", "x", "\"", ">", "g", "o", "<", "/", "a", ">", " ", "<", "a", " ", "h", "r", "e", "f", "=", "\"", "u", "\"", ">", "t", "<", "/", "a", ">", "<", "/", "p", ">">>

(***************************************************************************)
(* C8 as stated: the empty input string converts, with no fault, to an     *)
(* output that is empty or holds only whitespace.                          *)
(***************************************************************************)
C8_EmptyInputAsStated ==
    \A p \in Calls :
        (Done(p) /\ text[p] = <<>>) => \A j \in 1..Len(output[p]) : IsSpace(output[p][j])

(***************************************************************************)
(* C8 amended: the empty input string converts, with no fault, to the      *)
(* single line-break element <br>: the split gives one empty line, which   *)
(* the default case turns into that element.                               *)
(***************************************************************************)
C8_EmptyInput ==
    \A p \in Calls :
        /\ (pc[p] # "idle" /\ text[p] = <<>>) => pc[p] \in {"call", "loop", "done"}
        /\ (pc[p] \in {"loop", "done"} /\ text[p] = <<>>) => lines[p] = <<<<>>>>
        /\ (Done(p) /\ text[p] = <<>>) =>
              /\ Strings(result[p]) = <<<<"<", "b", "r", ">">>>>
              /\ output[p] = <<"<", "b", "r", ">">>

\* a call on the empty string returned
C8_Witness == Done(1) /\ text[1] = <<>> /\ output[1] # <<>>

(***************************************************************************)
(* C9: when the provider request of generate_completion fails, the         *)
(* failure is caught inside it (nothing propagates to the caller), the     *)
(* error message is returned as raw_output, and formatted_output is what   *)
(* the converter makes of that message.                                    *)
(***************************************************************************)
C9_FailureThroughConverter ==
    request.kind = "fail" =>
        /\ pc[1] # "raised"
        /\ pc[1] = "returned" =>
              /\ raw_output = <<"E", "r", "r", "o", "r", " ", "g", "e", "n", "e", "r", "a", "t", "i", "n", "g", " ", "c", "o", "m", "p", "l", "e", "t", "i", "o", "n", ":", " ">> \o request.error
              /\ formatted_output = Converted(raw_output)

(***************************************************************************)
(* C10: in any interleaving of the steps of concurrent calls, each call    *)
(* returns what it returns when run alone on its input: every step changes *)
(* the cursor, the fence flag and the accumulator of one call only, and    *)
(* at every point of a call what it has appended, followed by what a call  *)
(* alone appends from its cursor and flag on, is the output of the call    *)
(* alone.                                                                  *)
(***************************************************************************)
C10_Alone ==
    \A p \in Calls :
        /\ pc[p] \in {"loop", "done"} =>
              /\ lines[p] = Split(text[p])
              /\ in_code_block[p] = (FencesBefore(lines[p], i[p]) % 2 = 1)
        /\ pc[p] = "loop" =>
              Strings(result[p]) \o AppendedFrom(lines[p], i[p], in_code_block[p])
                 = AppendedFrom(Split(text[p]), 0, FALSE)
        /\ Done(p) =>
              /\ Strings(result[p]) = AppendedFrom(Split(text[p]), 0, FALSE)
              /\ output[p] = Converted(text[p])

C10_OwnState(q) ==
    <<text[q], lines[q], i[q], in_code_block[q], result[q], reads[q], output[q], pc[q]>>

C10_OneCallSteps ==
    \E p \in Calls : \A q \in Calls \ {p} : C10_OwnState(q)' = C10_OwnState(q)

C10_Isolated == [](C10_Alone) /\ [][C10_OneCallSteps]_vars

\* two calls on different inputs, both in the middle of their loops, one inside a fence
C10_Witness ==
    /\ pc[1] = "loop" /\ pc[2] = "loop"
    /\ text[1] # text[2]
    /\ i[1] = 1 /\ i[2] = 1
    /\ in_code_block[1] /\ ~in_code_block[2]
    /\ Len(result[1]) = 1 /\ Len(result[2]) = 2

(***************************************************************************)
(* C11: every line that reaches the default case (outside a fence, not a   *)
(* fence delimiter, not a header, not a list item) gives exactly one       *)
(* fragment, and only such lines give a default-case fragment.  The        *)
(* fragment is the line-break element alone when the raw line is empty or  *)
(* whitespace-only; otherwise it is the inline-formatted line, wrapped in  *)
(* a paragraph element exactly when the formatted line holds none of the   *)
(* opening tags h1, h2, h3, h4, ul, ol, li, and unwrapped when it holds    *)
(* one.                                                                    *)
(***************************************************************************)
C11_Blank(l) == \A j \in 1..Len(l) : l[j] \in {" ", "\t", "\n", "\r", "\f"}

C11_HasTag(s) ==
    \E t \in {<<"<", "h", "1", ">">>, <<"<", "h", "2", ">">>, <<"<", "h", "3", ">">>, <<"<", "h", "4", ">">>, <<"<", "u", "l", ">">>, <<"<", "o", "l", ">">>, <<"<", "l", "i", ">">>} :
        \E j \in 1..(Len(s) - Len(t) + 1) : SubSeq(s, j, j + Len(t) - 1) = t

C11_Expected(l) ==
    IF C11_Blank(l) THEN <<"<", "b", "r", ">">>
    ELSE IF C11_HasTag(InlineFormat(l)) THEN InlineFormat(l)
         ELSE <<"<", "p", ">">> \o InlineFormat(l) \o <<"<", "/", "p", ">">>

\* line k is outside every fence and is no header and no list item
C11_DefaultLine(ls, k) ==
    /\ OutsideFence(ls, k)
    /\ ~C5_IsHeading(At(ls, k))
    /\ ~C3_IsUl(ls, k)
    /\ ~C3_IsOl(ls, k)

C11_DefaultCase ==
    \A p \in Calls :
        \A k \in 0..(i[p] - 1) :
            LET F == FragsOfLines(p, k, k)
                l == At(lines[p], k)
            IN  /\ C11_DefaultLine(lines[p], k) <=> (\E j \in 1..Len(F) : F[j].rule = "default")
                /\ C11_DefaultLine(lines[p], k) =>
                       /\ Len(F) = 1
                       /\ F[1].rule = "default"
                       /\ F[1].frag = C11_Expected(l)

\* a call returned on a whitespace-only line, a line with a block tag and a
\* line with inline markup only: a line break, the bare line, a paragraph
C11_Witness ==
    /\ Done(1)
    /\ lines[1] = <<<<" ", "\t">>, <<"<", "l", "i", ">", "*", "a", "*">>, <<"*", "a", "*", " ", "[", "t", "]", "(", "u", ")">>>>
    /\ Strings(result[1]) = <<<<"<", "b", "r", ">">>, <<"<", "l", "i", ">", "<", "e", "m", ">", "a", "<", "/", "e", "m", ">">>, <<"<", "p", ">", "<", "e", "m", ">", "a", "<", "/", "e", "m", ">", " ", "<", "a", " ", "h", "r", "e", "f", "=", "\"", "u", "\"", ">", "t", "<", "/", "a", ">", "<", "/", "p", ">">>>>

====
